---- MODULE Spec2Model ----
(***************************************************************************)
(* Model of the LinkGrabber crawler (src/linkgrabber.py).                  *)
(*                                                                         *)
(* Strings that the program inspects character by character (netloc,       *)
(* path) are sequences of one-character strings; a URL is the record of    *)
(* the components urlparse gives.  The asyncio event loop is a FIFO queue  *)
(* of ready tasks; network completions append a wake-up to the queue at    *)
(* any moment, and one loop step runs the task at the head of the queue    *)
(* up to its next suspension.                                              *)
(***************************************************************************)
EXTENDS Integers, Sequences, FiniteSets, TLC

(***************************************************************************)
(* Bounds of the model                                                     *)
(***************************************************************************)
\* network completions that may sit in the ready queue, not yet run
MaxPendingIO == 2
\* the same, while the wide site is crawled
MaxPendingWide == 1
\* link sets up to this size are iterated in every order, larger ones in two
MaxShuffle == 3
\* largest max_depth handed to scan()
MaxDepthArg == 3
\* longest query string of a drawn reference, in parameters
MaxQueryLen == 2
MaxSmallCapacity == 2

\* asyncio.Semaphore(10)
SemaphoreCapacity == 10
\* pages linked from the seed of the wide site: one more than the limiter admits
StarFanout == SemaphoreCapacity + 1

(***************************************************************************)
(* Strings, URLs                                                           *)
(***************************************************************************)
Null == [null |-> TRUE]

Range(s) == {s[i] : i \in 1..Len(s)}

\* str.lower on the characters that occur in the modelled hosts
LowerChar(c) == IF c = "E" THEN "e" ELSE IF c = "X" THEN "x" ELSE c

Lower(s) == [i \in 1..Len(s) |-> LowerChar(s[i])]

\* str.startswith
StartsWith(s, p) == /\ Len(p) <= Len(s)
                    /\ SubSeq(s, 1, Len(p)) = p

\* a URL string, as the components urlparse splits it into
Url(scheme, netloc, path, query, fragment) ==
    [scheme |-> scheme, netloc |-> netloc, path |-> path,
     query |-> query, fragment |-> fragment]

\* query parameters are <<key, value>> pairs of small numbers; value 0 is
\* the blank value ("k=")
PairLess(a, b) == \/ a[1] < b[1]
                  \/ a[1] = b[1] /\ a[2] < b[2]

RECURSIVE Insert(_, _)
Insert(p, s) == IF s = <<>> THEN <<p>>
                ELSE IF PairLess(s[1], p) THEN <<s[1]>> \o Insert(p, Tail(s))
                ELSE <<p>> \o s

RECURSIVE Sorted(_)
Sorted(s) == IF s = <<>> THEN <<>> ELSE Insert(s[1], Sorted(Tail(s)))

\* urllib.parse.parse_qsl: pairs with a blank value are dropped
RECURSIVE parse_qsl(_)
parse_qsl(q) == IF q = <<>> THEN <<>>
                ELSE IF q[1][2] = 0 THEN parse_qsl(Tail(q))
                ELSE <<q[1]>> \o parse_qsl(Tail(q))

\* schemes urljoin does not resolve against a base
NonRelativeSchemes == {"mailto", "tel", "javascript"}

\* urlsplit raises ValueError on a netloc with an unbalanced bracket
InvalidNetloc(n) == ("[" \in Range(n)) /= ("]" \in Range(n))

\* urllib.parse.urljoin for references with an absolute or empty path
urljoin(base, href) ==
    IF href.scheme /= "" /\ (href.scheme /= base.scheme
                             \/ href.scheme \in NonRelativeSchemes)
    THEN href
    ELSE IF href.netloc /= <<>>
    THEN Url(base.scheme, href.netloc, href.path, href.query, href.fragment)
    ELSE IF href.path = <<>>
    THEN Url(base.scheme, base.netloc, base.path,
             IF href.query = <<>> THEN base.query ELSE href.query,
             href.fragment)
    ELSE Url(base.scheme, base.netloc, href.path, href.query, href.fragment)

normalize_url(base_url, href) ==
    IF InvalidNetloc(href.netloc) THEN Null
    ELSE LET parsed == urljoin(base_url, href)
             sorted_query == Sorted(parse_qsl(parsed.query))
             path == IF parsed.path /= <<>> THEN parsed.path ELSE <<"/">>
         IN  Url(parsed.scheme, Lower(parsed.netloc), path, sorted_query, "")

get_domain(url) == url.netloc

(***************************************************************************)
(* The sites crawled: what the HTTP capability answers for each request    *)
(***************************************************************************)
Host == <<"e", "x">>
HostUpper == <<"E", "x">>
OtherHost == <<"o", "t">>

PRoot == <<"/">>
PA == <<"/", "a">>
PB == <<"/", "b">>
PD == <<"/", "d">>
PF == <<"/", "f">>
PP == <<"/", "p">>
PQ == <<"/", "p", "/", "q">>
PZ == <<"/", "z">>
PN == <<"/", "n">>

\* the canonical URL of a path of the crawled host
Page(path) == Url("https", Host, path, <<>>, "")
\* a reference by absolute path, as it stands in the markup
Ref(path) == Url("", <<>>, path, <<>>, "")

Letters == <<"a", "b", "c", "d", "e", "f", "g", "h", "i", "j", "k", "l", "m">>
LeafPath(i) == <<"/", "l", Letters[i]>>

HtmlType == "text/html; charset=utf-8"
ImageType == "image/png"

\* 'text/html' in content_type
IsHtml(content_type) == content_type \in {"text/html", HtmlType}

Response(status, content_type, hrefs) ==
    [status |-> status, content_type |-> content_type, hrefs |-> hrefs]
\* the HTTP capability raises (DNS, connect, timeout, TLS)
TransportError == [status |-> 0, content_type |-> "", hrefs |-> {}]
NotFound == Response(404, HtmlType, {Ref(PN)})

\* what the server sees of a URL: host case-insensitive, empty path sent
\* as "/", no fragment
RequestKey(url) ==
    Url(url.scheme, Lower(url.netloc),
        IF url.path = <<>> THEN <<"/">> ELSE url.path, url.query, "")

Scenarios == {"main", "star", "typed", "dead", "query"}

\* the drawn input of the "query" site: the URL handed to scan() and the
\* references its page carries
VARIABLE input

NoInput == [base |-> Page(PRoot), refs |-> {}]

QueryParams == {<<k, v>> : k \in 1..2, v \in 0..2}
Queries == UNION {[1..n -> QueryParams] : n \in 0..MaxQueryLen}

\* the orders of the parameters of a query string
Reorderings(q) ==
    {[i \in 1..Len(q) |-> q[f[i]]] :
        f \in {g \in [1..Len(q) -> 1..Len(q)] :
                  \A i, j \in 1..Len(q) : g[i] = g[j] => i = j}}

QueryBases ==
    {Page(PRoot), Url("https", Host, PA, <<<<1, 1>>, <<2, 1>>>>, "")}

\* a page with two references that differ in the order of their parameters
QueryInputs ==
    UNION {{[base |-> b,
             refs |-> {Url("", <<>>, path, q1, ""),
                       Url("", <<>>, path, q2, "")}] :
               b \in QueryBases, path \in {<<>>, PB},
               q2 \in Reorderings(q1)} : q1 \in Queries}

\* a page with one reference that is no page: mailto:, tel:, javascript:,
\* or a netloc urlsplit rejects
SchemeInputs ==
    {[base |-> Page(PRoot), refs |-> {Url(scheme, netloc, path, <<>>, "")}] :
        scheme \in {"mailto", "tel", "javascript"},
        netloc \in {<<>>, Host}, path \in {<<"m">>, PB}}
    \cup {[base |-> Page(PRoot),
           refs |-> {Url("https", <<"[">>, PB, <<>>, "")}]}

InputsOf(s) ==
    IF s = "query" THEN QueryInputs \cup SchemeInputs ELSE {NoInput}

\* the URL handed to scan()
SiteSeed(s) ==
    CASE s = "typed" -> Url("https", Host, <<>>, <<>>, "")
      [] s = "query" -> input.base
      [] OTHER -> Page(PRoot)

MainSite(key) ==
    CASE key = Page(PRoot) ->
           Response(200, HtmlType,
                    {Ref(PA), Ref(PB),
                     Url("mailto", <<>>, <<"m">>, <<>>, ""),
                     Url("https", OtherHost, PA, <<>>, "")})
      [] key = Page(PA) ->
           Response(200, HtmlType,
                    {Ref(PP), Ref(PRoot), Ref(PZ),
                     Url("", <<>>, <<>>, <<>>, "top")})
      [] key = Page(PB) -> Response(200, HtmlType, {Ref(PD), Ref(PF)})
      [] key = Page(PD) -> Response(200, HtmlType, {Ref(PP)})
      [] key = Page(PP) -> Response(200, HtmlType, {Ref(PQ), Ref(PA)})
      [] key = Page(PQ) -> Response(200, ImageType, {})
      [] key = Page(PF) -> TransportError
      [] OTHER -> NotFound

StarSite(key) ==
    CASE key = Page(PRoot) ->
           Response(200, HtmlType, {Ref(LeafPath(i)) : i \in 1..StarFanout})
      [] key = Page(LeafPath(1)) -> TransportError
      [] OTHER -> Response(200, ImageType, {})

TypedSite(key) ==
    CASE key = Page(PRoot) -> Response(200, HtmlType, {Ref(PRoot), Ref(PA)})
      [] key = Page(PA) -> Response(200, HtmlType, {Ref(PRoot), Ref(PB)})
      [] OTHER -> NotFound

QuerySite(key) ==
    IF key = RequestKey(input.base)
    THEN Response(200, HtmlType, input.refs)
    ELSE Response(200, ImageType, {})

\* the depths each site is crawled to
DepthsOf(s) == IF s \in {"star", "query"} THEN {1} ELSE 0..MaxDepthArg

\* how many answers of the site may wait in the ready queue
PendingLimit(s) == IF s = "star" THEN MaxPendingWide ELSE MaxPendingIO

\* session.get(url): the answer of the modelled network
HttpGet(s, url) ==
    CASE s = "main" -> MainSite(RequestKey(url))
      [] s = "star" -> StarSite(RequestKey(url))
      [] s = "typed" -> TypedSite(RequestKey(url))
      [] s = "query" -> QuerySite(RequestKey(url))
      [] OTHER -> TransportError

(***************************************************************************)
(* urllib.robotparser.RobotFileParser, as scan() and scan_url() use it     *)
(***************************************************************************)
\* what fetching /robots.txt can give
RobotsOutcomes ==
    {"parsed_empty", "parsed_rules", "http_403", "http_404", "http_500",
     "raised"}

\* the outcomes in which robots.txt could not be loaded
RobotsFailures == {"http_500", "raised"}

\* the answers each site gives for /robots.txt
RobotsAnswers(s) ==
    IF s \in {"star", "query"} THEN {"parsed_empty"} ELSE RobotsOutcomes

RuleLine(path, allowance) == [path |-> path, allowance |-> allowance]

\* RobotFileParser() of __init__
NewRobotParser ==
    [disallow_all |-> FALSE, allow_all |-> FALSE, last_checked |-> FALSE,
     rules |-> <<>>]

\* RobotFileParser.read(): parse() stamps last_checked; an HTTPError sets a
\* flag for 401/403 and for other 4xx only; anything raised leaves the
\* parser as constructed
RobotsRead(rp, outcome) ==
    CASE outcome = "parsed_empty" -> [rp EXCEPT !.last_checked = TRUE]
      [] outcome = "parsed_rules" ->
           [rp EXCEPT !.last_checked = TRUE,
                      !.rules = <<RuleLine(PP, FALSE)>>]
      [] outcome = "http_403" -> [rp EXCEPT !.disallow_all = TRUE]
      [] outcome = "http_404" -> [rp EXCEPT !.allow_all = TRUE]
      [] OTHER -> rp

\* Entry.allowance: the first rule line whose path is a prefix decides
RECURSIVE Allowance(_, _)
Allowance(rules, filename) ==
    IF rules = <<>> THEN TRUE
    ELSE IF StartsWith(filename, rules[1].path) THEN rules[1].allowance
    ELSE Allowance(Tail(rules), filename)

\* RobotFileParser.can_fetch
can_fetch(rp, url) ==
    IF rp.disallow_all THEN FALSE
    ELSE IF rp.allow_all THEN TRUE
    ELSE IF ~rp.last_checked THEN FALSE
    ELSE Allowance(rp.rules, IF url.path = <<>> THEN <<"/">> ELSE url.path)

(***************************************************************************)
(* State                                                                   *)
(***************************************************************************)
VARIABLES
    site,           \* which site the network serves (environment)
    max_depth,      \* argument of scan()
    robots_load,    \* how loading robots.txt went ("" before it is loaded)
    phase,          \* position of scan(): start, crawl, report, done, error
    target_domain,
    robot_parser,
    visited_urls,
    found_links,    \* url -> result of fetch_url
    graph_nodes,    \* nodes of the DiGraph
    graph_attrs,    \* node -> attributes, for the nodes add_node has set
    graph_edges,
    scanned_count,
    sem_value,      \* Semaphore._value
    sem_waiters,    \* Semaphore._waiters: <<task, woken>> in arrival order
    tasks,          \* the scan_url coroutines, in creation order
    ready           \* the event loop's queue of tasks ready to run

vars == <<input, site, max_depth, robots_load, phase, target_domain, robot_parser,
          visited_urls, found_links, graph_nodes, graph_attrs, graph_edges,
          scanned_count, sem_value, sem_waiters, tasks, ready>>

\* a scan_url(url, max_depth, depth) call; parent 0 is scan() itself
\*   new     created, scheduled, not yet started
\*   acquire suspended in semaphore.acquire()
\*   sem     woken by release(), not yet resumed
\*   fetch   inside the limiter, network call in flight
\*   io      network call over, not yet resumed
\*   gather  awaiting its children
\*   wake    children finished, not yet resumed
\*   done    returned
Task(url, depth, parent) ==
    [url |-> url, depth |-> depth, parent |-> parent, pc |-> "new",
     pending |-> 0, admitted |-> FALSE]

Init ==
    /\ site \in Scenarios
    /\ input \in InputsOf(site)
    /\ max_depth \in DepthsOf(site)
    /\ robots_load = ""
    /\ phase = "start"
    /\ target_domain = <<>>
    /\ robot_parser = NewRobotParser
    /\ visited_urls = {}
    /\ found_links = <<>>
    /\ graph_nodes = {}
    /\ graph_attrs = <<>>
    /\ graph_edges = {}
    /\ scanned_count = 0
    /\ sem_value = SemaphoreCapacity
    /\ sem_waiters = <<>>
    /\ tasks = <<>>
    /\ ready = <<>>

(***************************************************************************)
(* Helpers of the operations                                               *)
(***************************************************************************)
\* dict.get(key) is present
Has(d, key) == key \in DOMAIN d

\* d[key] = value
Put_keep(d, key, value) == d

\* d[key] = value
Put(d, key, value) ==
    [k \in DOMAIN d \cup {key} |-> IF k = key THEN value ELSE d[k]]

fetch_result_no_error(url, resp) ==
    [url |-> url, status |-> resp.status,
     content_type |-> resp.content_type, content |-> resp.hrefs]

\* fetch_url: the dict returned on success and in the except branch
fetch_result(url, resp) ==
    IF resp.status = 0
    THEN [url |-> url, status |-> 0, error |-> "transport"]
    ELSE [url |-> url, status |-> resp.status,
          content_type |-> resp.content_type, content |-> resp.hrefs]

ExitLimiter_success_only(value, resp) ==
    IF resp.status = 0 THEN value ELSE value + 1

\* leaving "async with self.semaphore": __aexit__ releases on every path
ExitLimiter_held_while_expanding(value, resp) ==
    IF resp.hrefs = {} THEN value + 1 ELSE value

ExitLimiter(value, resp) == value + 1

locked_never(value, waiters) == FALSE

\* Semaphore.locked()
locked(value, waiters) == value = 0 \/ waiters /= <<>>

\* Semaphore._wake_up_next on the loop state st: the first waiter not yet
\* woken takes the slot and is scheduled
WakeUpNext(st) ==
    LET idx == {i \in 1..Len(st.waiters) : ~st.waiters[i][2]}
    IN  IF idx = {} THEN st
        ELSE LET i == CHOOSE j \in idx : \A k \in idx : j <= k
                 w == st.waiters[i][1]
             IN  [st EXCEPT !.value = @ - 1,
                            !.waiters[i] = <<w, TRUE>>,
                            !.tasks[w].pc = "sem",
                            !.ready = Append(@, w)]

Finish_no_wake(st, t) == [st EXCEPT !.tasks[t].pc = "done"]

Finish_first_child(st, t) ==
    LET p == st.tasks[t].parent
        st1 == [st EXCEPT !.tasks[t].pc = "done"]
    IN  IF p = 0 \/ st.tasks[p].pc /= "gather" THEN st1
        ELSE [st1 EXCEPT !.tasks[p].pending = 0, !.tasks[p].pc = "wake",
                         !.ready = Append(@, p)]

\* a coroutine returns: the parent awaiting gather() is scheduled once its
\* last child is done
Finish(st, t) ==
    LET p == st.tasks[t].parent
        st1 == [st EXCEPT !.tasks[t].pc = "done"]
    IN  IF p = 0 THEN st1
        ELSE IF st.tasks[p].pending = 1
        THEN [st1 EXCEPT !.tasks[p].pending = 0, !.tasks[p].pc = "wake",
                         !.ready = Append(@, p)]
        ELSE [st1 EXCEPT !.tasks[p].pending = @ - 1]

LoopState == [value |-> sem_value, waiters |-> sem_waiters,
              tasks |-> tasks, ready |-> Tail(ready)]

\* the loop state st becomes the next state; scan() goes on to the report
\* when its scan_url call has returned
Commit(st) ==
    /\ sem_value' = st.value
    /\ sem_waiters' = st.waiters
    /\ tasks' = st.tasks
    /\ ready' = st.ready
    /\ phase' = IF st.tasks[1].pc = "done" THEN "report" ELSE phase

\* line 121: the schemes extract_links filters out
SkippedSchemes_none == {}

\* line 121
SkippedSchemes == {"mailto", "tel", "javascript"}

EmptyHref == Url("", <<>>, <<>>, <<>>, "")

extract_links_any_domain(base_url, content, domain) ==
    LET normalized == {normalize_url(base_url, h) : h \in content \ {EmptyHref}}
    IN  {n \in normalized \ {Null} : n.scheme \notin SkippedSchemes}

extract_links(base_url, content, domain) ==
    LET normalized == {normalize_url(base_url, h) : h \in content \ {EmptyHref}}
    IN  {n \in normalized \ {Null} :
            /\ n.scheme \notin SkippedSchemes
            /\ get_domain(n) = domain}

Skip_depth_only(url, depth, md, visited) == depth > md

\* line 133
Skip(url, depth, md, visited) == depth > md \/ url \in visited

RobotsAllows_always(rp, url) == TRUE

\* line 137
RobotsAllows(rp, url) == can_fetch(rp, url)

IsHtmlPage_any_status(result) ==
    Has(result, "content_type") /\ IsHtml(result.content_type)

\* line 156
IsHtmlPage(result) ==
    /\ result.status = 200
    /\ Has(result, "content_type")
    /\ IsHtml(result.content_type)

\* line 158
MayExpand(depth, md) == depth < md

ChildDepth_same(depth) == depth

\* line 163: current_depth + 1
ChildDepth(depth) == depth + 1

\* lines 152-153
label(url) ==
    LET path == IF url.path /= <<>> THEN url.path ELSE <<"/">>
    IN  IF Len(path) > 30 THEN SubSeq(path, 1, 30) \o <<".", ".", ".">>
        ELSE path

\* the orders in which "for link in links" may see a set
RECURSIVE SetToSeq(_)
SetToSeq(S) == IF S = {} THEN <<>>
               ELSE LET x == CHOOSE y \in S : TRUE
                    IN  <<x>> \o SetToSeq(S \ {x})

Reverse(s) == [i \in 1..Len(s) |-> s[Len(s) + 1 - i]]

\* every order for a set of at most MaxShuffle links; one order and its
\* reverse for a larger set
Orderings(S) ==
    LET n == Cardinality(S)
    IN  IF n <= MaxShuffle
        THEN {f \in [1..n -> S] : \A i, j \in 1..n : f[i] = f[j] => i = j}
        ELSE {SetToSeq(S), Reverse(SetToSeq(S))}

(***************************************************************************)
(* Operations                                                              *)
(***************************************************************************)
\* scan(), lines 215-244: robots.txt is loaded, then scan_url(url, max_depth)
ScanBegin(outcome) ==
    /\ phase = "start"
    /\ target_domain' = get_domain(SiteSeed(site))
    /\ robot_parser' = RobotsRead(robot_parser, outcome)
    /\ robots_load' = outcome
    /\ phase' = "crawl"
    /\ tasks' = <<Task(SiteSeed(site), 0, 0)>>
    /\ ready' = <<1>>
    /\ UNCHANGED <<input, site, max_depth, visited_urls, found_links, graph_nodes,
                   graph_attrs, graph_edges, scanned_count, sem_value,
                   sem_waiters>>

\* scan_url, lines 133-143, and fetch_url up to its first suspension
ScanUrlEnter(t) ==
    /\ phase = "crawl"
    /\ ready /= <<>>
    /\ t = Head(ready)
    /\ tasks[t].pc = "new"
    /\ LET url == tasks[t].url
           st == LoopState
       IN  IF Skip(url, tasks[t].depth, max_depth, visited_urls)
              \/ ~RobotsAllows(robot_parser, url)
           THEN /\ Commit(Finish(st, t))
                /\ UNCHANGED visited_urls
           ELSE /\ visited_urls' = visited_urls \cup {url}
                /\ IF ~locked(sem_value, sem_waiters)
                   THEN Commit([st EXCEPT !.value = @ - 1,
                                          !.tasks[t].admitted = TRUE,
                                          !.tasks[t].pc = "fetch"])
                   ELSE Commit([st EXCEPT !.waiters = Append(@, <<t, FALSE>>),
                                          !.tasks[t].admitted = TRUE,
                                          !.tasks[t].pc = "acquire"])
    /\ UNCHANGED <<input, site, max_depth, robots_load, target_domain, robot_parser,
                   found_links, graph_nodes, graph_attrs, graph_edges,
                   scanned_count>>

\* Semaphore.acquire resumes after release() handed it a slot
AcquireResume(t) ==
    /\ phase = "crawl"
    /\ ready /= <<>>
    /\ t = Head(ready)
    /\ tasks[t].pc = "sem"
    /\ LET st == LoopState
           rest == SelectSeq(st.waiters, LAMBDA w : w[1] /= t)
           st1 == [st EXCEPT !.waiters = rest, !.tasks[t].pc = "fetch"]
       IN  Commit(IF st1.value > 0 THEN WakeUpNext(st1) ELSE st1)
    /\ UNCHANGED <<input, site, max_depth, robots_load, target_domain, robot_parser,
                   visited_urls, found_links, graph_nodes, graph_attrs,
                   graph_edges, scanned_count>>

\* the network call of task t ends (response read, or transport error)
NetworkDone(t) ==
    /\ phase = "crawl"
    /\ t \in 1..Len(tasks)
    /\ tasks[t].pc = "fetch"
    /\ Cardinality({i \in 1..Len(ready) : tasks[ready[i]].pc = "io"})
          < PendingLimit(site)
    /\ tasks' = [tasks EXCEPT ![t].pc = "io"]
    /\ ready' = Append(ready, t)
    /\ UNCHANGED <<input, site, max_depth, robots_load, phase, target_domain,
                   robot_parser, visited_urls, found_links, graph_nodes,
                   graph_attrs, graph_edges, scanned_count, sem_value,
                   sem_waiters>>

\* fetch_url returns (lines 93-108) and scan_url runs lines 144-164
ScanUrlAfterFetch(t) ==
    /\ phase = "crawl"
    /\ ready /= <<>>
    /\ t = Head(ready)
    /\ tasks[t].pc = "io"
    \* the locals of the call, each bound to its value
    /\ \E url \in {tasks[t].url}, depth \in {tasks[t].depth},
          n \in {Len(tasks)} :
       \E resp \in {HttpGet(site, url)} :
       \E result \in {fetch_result(url, resp)} :
       \E st1 \in {WakeUpNext([LoopState EXCEPT
                                  !.value = ExitLimiter(sem_value, resp)])} :
       \E links \in {IF IsHtmlPage(result)
                    THEN extract_links(url, result.content, target_domain)
                    ELSE {}} :
       \E fresh \in {IF MayExpand(depth, max_depth)
                    THEN {l \in links : l \notin visited_urls}
                    ELSE {}} :
           /\ found_links' = Put(found_links, url, result)
           /\ scanned_count' = scanned_count + 1
           /\ graph_nodes' = graph_nodes \cup {url} \cup fresh
           /\ graph_attrs' = Put(graph_attrs, url,
                                 [label |-> label(url),
                                  status |-> result.status])
           /\ graph_edges' = graph_edges \cup {<<url, l>> : l \in fresh}
           /\ IF fresh = {}
              THEN Commit(Finish(st1, t))
              ELSE \E order \in Orderings(fresh) :
                     Commit([st1 EXCEPT
                        !.tasks = [@ EXCEPT ![t].pc = "gather",
                                            ![t].pending = Len(order)]
                                  \o [i \in 1..Len(order) |->
                                        Task(order[i], ChildDepth(depth), t)],
                        !.ready = @ \o [i \in 1..Len(order) |-> n + i]])
    /\ UNCHANGED <<input, site, max_depth, robots_load, target_domain, robot_parser,
                   visited_urls>>

\* scan_url returns from "await asyncio.gather(*tasks)", line 164
ScanUrlReturn(t) ==
    /\ phase = "crawl"
    /\ ready /= <<>>
    /\ t = Head(ready)
    /\ tasks[t].pc = "wake"
    /\ Commit(Finish(LoopState, t))
    /\ UNCHANGED <<input, site, max_depth, robots_load, target_domain, robot_parser,
                   visited_urls, found_links, graph_nodes, graph_attrs,
                   graph_edges, scanned_count>>

\* scan(), lines 245-251: print_results, then create_visualization, which
\* reads graph.nodes[node]['label'] of every node
Report ==
    /\ phase = "report"
    /\ phase' = IF \A node \in graph_nodes : Has(graph_attrs, node)
                THEN "done" ELSE "error"
    /\ UNCHANGED <<input, site, max_depth, robots_load, target_domain, robot_parser,
                   visited_urls, found_links, graph_nodes, graph_attrs,
                   graph_edges, scanned_count, sem_value, sem_waiters, tasks,
                   ready>>

Next ==
    \/ \E outcome \in RobotsAnswers(site) : ScanBegin(outcome)
    \/ \E t \in 1..Len(tasks) : ScanUrlEnter(t)
    \/ \E t \in 1..Len(tasks) : AcquireResume(t)
    \/ \E t \in 1..Len(tasks) : NetworkDone(t)
    \/ \E t \in 1..Len(tasks) : ScanUrlAfterFetch(t)
    \/ \E t \in 1..Len(tasks) : ScanUrlReturn(t)
    \/ Report

Spec == Init /\ [][Next]_vars

\* the same crawler built with a limiter of 1..MaxSmallCapacity slots
InitCapacity ==
    /\ site \in Scenarios \ {"query"}
    /\ input = NoInput
    /\ max_depth \in DepthsOf(site)
    /\ robots_load = ""
    /\ phase = "start"
    /\ target_domain = <<>>
    /\ robot_parser = NewRobotParser
    /\ visited_urls = {}
    /\ found_links = <<>>
    /\ graph_nodes = {}
    /\ graph_attrs = <<>>
    /\ graph_edges = {}
    /\ scanned_count = 0
    /\ sem_value \in 1..MaxSmallCapacity
    /\ sem_waiters = <<>>
    /\ tasks = <<>>
    /\ ready = <<>>

SpecCapacity == InitCapacity /\ [][Next]_vars

\* the event loop runs every callback it has scheduled, and every request
\* completes or fails (aiohttp's timeout, line 33)
FairSpec == Spec /\ WF_vars(Next)

TypeOK ==
    /\ phase \in {"start", "crawl", "report", "done", "error"}
    /\ sem_value \in 0..SemaphoreCapacity
    /\ scanned_count \in Nat

(***************************************************************************)
(* Vocabulary of the properties                                            *)
(***************************************************************************)
TaskIds == 1..Len(tasks)

Seed == SiteSeed(site)

Finished == phase \in {"report", "done", "error"}

\* the scan_url calls that got past the checks of lines 133-139 for url
Admissions(url) == {t \in TaskIds : tasks[t].admitted /\ tasks[t].url = url}

\* the tasks that hold a limiter slot
Holders == {t \in TaskIds : tasks[t].pc \in {"sem", "fetch", "io"}}

\* the in-domain candidates link extraction yields for a page
Candidates(url) ==
    LET resp == HttpGet(site, url)
    IN  IF resp.status = 200 /\ IsHtml(resp.content_type)
        THEN extract_links(url, resp.hrefs, get_domain(Seed))
        ELSE {}

\* URLs within k links of the seed through robots-allowed pages
RECURSIVE Within(_)
Within(k) ==
    IF k = 0
    THEN {u \in {Seed} : can_fetch(robot_parser, u)}
    ELSE LET near == Within(k - 1)
         IN  near \cup {l \in UNION {Candidates(u) : u \in near} :
                            can_fetch(robot_parser, l)}

(***************************************************************************)
(* C1: within one run every URL is admitted, fetched and given its record  *)
(* in found_links at most once, whatever the interleaving of the scan_url  *)
(* tasks, and a record once written is never overwritten or removed.       *)
(***************************************************************************)
C1_AtMostOnce ==
    /\ [](\A t1, t2 \in TaskIds :
            (/\ tasks[t1].admitted
             /\ tasks[t2].admitted
             /\ tasks[t1].url = tasks[t2].url) => t1 = t2)
    /\ [][\A u \in DOMAIN found_links :
            /\ u \in DOMAIN found_links'
            /\ found_links'[u] = found_links[u]]_vars

\* two pages discovered the same URL; one call fetched it, the other dropped
C1_Witness ==
    \E t1, t2 \in TaskIds :
        /\ tasks[t1].url = tasks[t2].url
        /\ tasks[t1].parent /= tasks[t2].parent
        /\ tasks[t1].admitted
        /\ tasks[t1].url \in DOMAIN found_links
        /\ ~tasks[t2].admitted
        /\ tasks[t2].pc = "done"
        /\ tasks[t2].depth <= max_depth
        /\ t1 < t2

(***************************************************************************)
(* C2: completeness. When the crawl is over, every URL that is in-domain,  *)
(* robots-allowed and within max_depth links of the seed through pages     *)
(* answering 200 HTML has been admitted, and exactly once.                 *)
(***************************************************************************)
C2_Completeness ==
    Finished =>
        \A u \in Within(max_depth) :
            /\ u \in visited_urls
            /\ Cardinality(Admissions(u)) = 1

(***************************************************************************)
(* C3: every in-domain candidate extracted from a page fetched as 200 HTML *)
(* gives an edge (page, candidate), whether or not the candidate is        *)
(* visited, over the depth limit or robots-denied.                         *)
(***************************************************************************)
C3_EdgePerCandidate ==
    \A u \in DOMAIN found_links :
        (/\ found_links[u].status = 200
         /\ Has(found_links[u], "content_type")
         /\ IsHtml(found_links[u].content_type))
        => \A l \in extract_links(u, found_links[u].content, target_domain) :
              <<u, l>> \in graph_edges

(***************************************************************************)
(* C4: when the crawl has finished, every edge's source is a node, and the *)
(* target of an edge is a node if and only if it was admitted, so that     *)
(* every node the report iterates over has a label and a record.           *)
(***************************************************************************)
C4_NodesAreAdmitted ==
    Finished =>
        /\ \A e \in graph_edges : e[1] \in graph_nodes
        /\ \A e \in graph_edges : e[2] \in graph_nodes <=> e[2] \in visited_urls
        /\ \A node \in graph_nodes :
              Has(graph_attrs, node) /\ node \in DOMAIN found_links

(***************************************************************************)
(* C5: if loading robots.txt fails (read raises, or the server answers     *)
(* 5xx), the policy allows every URL: the seed is admitted and the crawl   *)
(* proceeds as with no restrictions.                                       *)
(***************************************************************************)
C5_PermissiveFallback ==
    robots_load \in RobotsFailures =>
        /\ can_fetch(robot_parser, Seed)
        /\ Finished => Seed \in visited_urls

(***************************************************************************)
(* C6: a URL the robots policy denies is never fetched, never gets a       *)
(* record and never enters the visited set, however often it is found.     *)
(***************************************************************************)
C6_DeniedNeverVisited ==
    /\ \A t \in TaskIds :
          ~can_fetch(robot_parser, tasks[t].url)
          => ~tasks[t].admitted /\ tasks[t].pc \in {"new", "done"}
    /\ \A u \in visited_urls \cup DOMAIN found_links :
          can_fetch(robot_parser, u)

\* a denied URL was discovered from two pages and dropped both times, on a
\* site whose other pages are crawled
C6_Witness ==
    \E t1, t2 \in TaskIds :
        /\ t1 /= t2
        /\ tasks[t1].url = tasks[t2].url
        /\ ~can_fetch(robot_parser, tasks[t1].url)
        /\ tasks[t1].pc = "done"
        /\ tasks[t2].pc = "done"
        /\ tasks[t1].url \notin visited_urls
        /\ Cardinality(visited_urls) > 1

(***************************************************************************)
(* C7: the number of fetches that hold a limiter slot is at most the       *)
(* capacity of 10, however many scan_url tasks exist.                      *)
(***************************************************************************)
C7_AtMostCapacity ==
    /\ Cardinality(Holders) <= SemaphoreCapacity
    /\ sem_value >= 0

\* the limiter is full and a further admitted task waits for a slot
C7_Witness ==
    /\ Cardinality({t \in TaskIds : tasks[t].pc = "fetch"}) = SemaphoreCapacity
    /\ \E t \in TaskIds : tasks[t].pc = "acquire"

(***************************************************************************)
(* C8: every fetch holds a slot during its network call and gives it back  *)
(* on every exit path, success or transport failure: the free slots plus   *)
(* the holders always make 10, and all 10 are free when the crawl is over. *)
(***************************************************************************)
C8_NoSlotLeaked ==
    /\ sem_value + Cardinality(Holders) = SemaphoreCapacity
    /\ Finished => sem_value = SemaphoreCapacity /\ sem_waiters = <<>>

\* a finished crawl that saw a transport failure, successes and waiting
C8_Witness ==
    /\ phase = "done"
    /\ \E u \in DOMAIN found_links : found_links[u].status = 0
    /\ \E u \in DOMAIN found_links : found_links[u].status = 200
    /\ scanned_count > SemaphoreCapacity

(***************************************************************************)
(* C9: no URL is admitted at a depth above max_depth, the depth being the  *)
(* number of links followed from the seed; with max_depth 0 only the seed  *)
(* is fetched, with max_depth 1 only the seed and what it links to.        *)
(***************************************************************************)
C9_DepthBound ==
    /\ \A t \in TaskIds :
          tasks[t].admitted =>
              /\ tasks[t].depth <= max_depth
              /\ tasks[t].parent = 0 <=> tasks[t].depth = 0
              /\ tasks[t].parent /= 0 =>
                    /\ tasks[tasks[t].parent].admitted
                    /\ tasks[tasks[t].parent].depth = tasks[t].depth - 1
    /\ \A p \in {tasks[t].parent : t \in TaskIds} \ {0} :
          LET linked == Candidates(tasks[p].url)
          IN  \A t \in TaskIds :
                (tasks[t].admitted /\ tasks[t].parent = p)
                => tasks[t].url \in linked
    /\ max_depth = 0 => visited_urls \subseteq {Seed}
    /\ max_depth = 1 => visited_urls \subseteq {Seed} \cup Candidates(Seed)

\* a crawl to depth 1 is over; it fetched the seed's links and left out a
\* page that one of them links to
C9_Witness ==
    /\ phase = "done"
    /\ max_depth = 1
    /\ visited_urls = {Seed} \cup Candidates(Seed)
    /\ \E u \in Candidates(Seed) : Candidates(u) \ visited_urls /= {}

(***************************************************************************)
(* C10: a transport failure gives the URL a record with status 0 and an    *)
(* error message and a graph node, no outgoing edge and no second fetch,   *)
(* and the other URLs are crawled all the same; if the seed fails, the     *)
(* crawl ends with one node and no edge.                                   *)
(***************************************************************************)
C10_TransportFailure ==
    /\ \A t \in TaskIds :
          (/\ tasks[t].admitted
           /\ tasks[t].pc \in {"gather", "wake", "done"}
           /\ HttpGet(site, tasks[t].url).status = 0)
          => LET u == tasks[t].url
             IN  /\ u \in DOMAIN found_links
                 /\ found_links[u].status = 0
                 /\ Has(found_links[u], "error")
                 /\ u \in graph_nodes
                 /\ Has(graph_attrs, u)
                 /\ graph_attrs[u].status = 0
                 /\ \A e \in graph_edges : e[1] /= u
                 /\ Admissions(u) = {t}
    /\ Finished => visited_urls = DOMAIN found_links
    /\ (Finished /\ Seed \in visited_urls /\ HttpGet(site, Seed).status = 0)
          => graph_nodes = {Seed} /\ graph_edges = {}

\* a finished crawl in which one page failed and pages admitted after the
\* failure were fetched
C10_Witness ==
    /\ phase = "done"
    /\ \E u \in DOMAIN found_links :
          /\ found_links[u].status = 0
          /\ u /= Seed
    /\ \E u \in DOMAIN found_links : found_links[u].status = 200 /\ u /= Seed

(***************************************************************************)
(* C11: only a page whose result is status 200 with an HTML content type,  *)
(* fetched below max_depth, has links followed: every scan_url call made   *)
(* for a link, and every edge, comes from such a page; any other result,   *)
(* or an HTML page at max_depth, spawns nothing and admits nothing.        *)
(***************************************************************************)
C11_ExpandOnlyHtml200 ==
    /\ \A t \in TaskIds :
          (tasks[t].parent /= 0 \/ tasks[t].pc \in {"gather", "wake"})
          => LET p == IF tasks[t].parent /= 0 THEN tasks[t].parent ELSE t
                 u == tasks[p].url
             IN  /\ u \in DOMAIN found_links
                 /\ found_links[u].status = 200
                 /\ Has(found_links[u], "content_type")
                 /\ IsHtml(found_links[u].content_type)
                 /\ tasks[p].depth < max_depth
    /\ \A e \in graph_edges :
          /\ e[1] \in DOMAIN found_links
          /\ found_links[e[1]].status = 200
          /\ Has(found_links[e[1]], "content_type")
          /\ IsHtml(found_links[e[1]].content_type)

\* a finished crawl that fetched a 404 page below max_depth and an HTML page
\* at max_depth, each with a link that was not followed
C11_Witness ==
    /\ phase = "done"
    /\ \E t \in TaskIds :
          /\ tasks[t].admitted
          /\ tasks[t].depth < max_depth
          /\ found_links[tasks[t].url].status = 404
          /\ \E h \in HttpGet(site, tasks[t].url).hrefs :
                normalize_url(tasks[t].url, h) \notin visited_urls
    /\ \E t \in TaskIds :
          /\ tasks[t].admitted
          /\ tasks[t].depth = max_depth
          /\ Candidates(tasks[t].url) \ visited_urls /= {}

(***************************************************************************)
(* C12: the crawl is domain-scoped. Every URL fetched, recorded or made a  *)
(* graph node, other than the seed, has the seed's host, and a reference   *)
(* to another host is never fetched, recorded or made a node.              *)
(***************************************************************************)
C12_DomainScoped ==
    /\ \A u \in (visited_urls \cup DOMAIN found_links \cup graph_nodes) \ {Seed} :
          u.netloc = Seed.netloc
    /\ \A t \in TaskIds : tasks[t].url.netloc = Seed.netloc
    /\ \A u \in DOMAIN found_links :
          \A h \in HttpGet(site, u).hrefs :
             LET n == normalize_url(u, h)
             IN  (n /= Null /\ n.netloc /= Seed.netloc)
                 => n \notin visited_urls \cup graph_nodes

\* a finished crawl whose seed page links to another host and to pages of
\* its own host, which were fetched
C12_Witness ==
    /\ phase = "done"
    /\ Seed \in DOMAIN found_links
    /\ \E h \in HttpGet(site, Seed).hrefs :
          /\ h.scheme = "https"
          /\ h.netloc /= <<>>
          /\ Lower(h.netloc) /= Lower(Seed.netloc)
    /\ Cardinality(DOMAIN found_links) > 1

(***************************************************************************)
(* C13: two references of a fetched page that differ only in the order of  *)
(* their query parameters canonicalize to the same URL, whose parameters   *)
(* are sorted by (key, value); the finished crawl has exactly one          *)
(* VisitRecord for that URL and the edge from the page to it.              *)
(***************************************************************************)
C13_QueryOrder ==
    \A u \in DOMAIN found_links :
       (found_links[u].status = 200 /\ Has(found_links[u], "content_type")
        /\ IsHtml(found_links[u].content_type))
       => \A h1, h2 \in HttpGet(site, u).hrefs :
             (/\ h1 /= h2
              /\ [h1 EXCEPT !.query = <<>>] = [h2 EXCEPT !.query = <<>>]
              /\ h2.query \in Reorderings(h1.query)
              /\ normalize_url(u, h1) /= Null)
             => LET n1 == normalize_url(u, h1)
                    n2 == normalize_url(u, h2)
                IN  /\ n1 = n2
                    /\ \A i, j \in 1..Len(n1.query) :
                          i < j => ~PairLess(n1.query[j], n1.query[i])
                    /\ Cardinality(Admissions(n1)) <= 1
                    /\ phase = "done"
                       => /\ n1 \in DOMAIN found_links
                          /\ Cardinality(Admissions(n1)) = 1
                          /\ <<u, n1>> \in graph_edges

C15_CanonicalNodes ==
    LET endpoints == graph_nodes \cup {e[1] : e \in graph_edges}
                                 \cup {e[2] : e \in graph_edges}
    IN  /\ \A n \in endpoints : normalize_url(n, n) = n
        /\ \A v, w \in visited_urls :
              normalize_url(v, v) = normalize_url(w, w) => v = w

(***************************************************************************)
(* C16: under fair scheduling the crawl terminates, whatever mix of        *)
(* successful fetches, error statuses, transport failures and link cycles  *)
(* the site has: scan_url returns to scan(), every spawned scan_url task   *)
(* has finished and every admitted URL has its VisitRecord; a transport    *)
(* failure is a record with status 0, not an exception out of the crawl.   *)
(***************************************************************************)
C16_Terminates ==
    <>(/\ Finished
       /\ \A t \in TaskIds : tasks[t].pc = "done"
       /\ \A t \in TaskIds :
             tasks[t].admitted
             => /\ tasks[t].url \in DOMAIN found_links
                /\ HttpGet(site, tasks[t].url) = TransportError
                   => found_links[tasks[t].url].status = 0)

\* a finished crawl of a site with a link cycle, a page answering 404 and a
\* page whose request failed
C16_Witness ==
    /\ phase = "done"
    /\ \E u \in DOMAIN found_links : found_links[u].status = 0
    /\ \E u \in DOMAIN found_links : found_links[u].status = 404
    /\ \E u, v \in DOMAIN found_links :
          u /= v /\ v \in Candidates(u) /\ u \in Candidates(v)

(***************************************************************************)
(* C17: the final report is made only after every scan_url task of the run *)
(* has completed: when scan() reads the visited set, the VisitRecords and  *)
(* the graph, no fetch is in flight, no task waits on the limiter, nothing *)
(* is scheduled, and every URL in the visited set has a VisitRecord.       *)
(***************************************************************************)
C17_ReportAfterCompletion ==
    phase \in {"report", "done", "error"}
    => /\ \A t \in TaskIds : tasks[t].pc = "done"
       /\ Holders = {}
       /\ sem_waiters = <<>>
       /\ ready = <<>>
       /\ visited_urls = DOMAIN found_links

\* scan() is about to report a crawl in which pages spawned several children
C17_Witness ==
    /\ phase = "report"
    /\ \E p \in TaskIds :
          Cardinality({t \in TaskIds : tasks[t].parent = p}) > 1
    /\ \E t \in TaskIds : tasks[t].depth >= 2 /\ tasks[t].admitted

(***************************************************************************)
(* C18: at every suspension point of the crawl the partial state is        *)
(* consistent: every URL with a VisitRecord is in the visited set and is a *)
(* labelled graph node, every edge's source has a VisitRecord, and         *)
(* scanned_count is the number of VisitRecords.                            *)
(***************************************************************************)
C18_ConsistentPartialState ==
    /\ DOMAIN found_links \subseteq visited_urls
    /\ \A u \in DOMAIN found_links :
          /\ u \in graph_nodes
          /\ Has(graph_attrs, u)
          /\ graph_attrs[u].label = label(u)
          /\ graph_attrs[u].status = found_links[u].status
    /\ \A e \in graph_edges : e[1] \in DOMAIN found_links
    /\ scanned_count = Cardinality(DOMAIN found_links)

\* the crawl is suspended with records written, a request in flight, a task
\* awaiting its children and an edge to a page not yet recorded
C18_Witness ==
    /\ phase = "crawl"
    /\ Cardinality(DOMAIN found_links) >= 2
    /\ \E t \in TaskIds : tasks[t].pc = "fetch"
    /\ \E t \in TaskIds : tasks[t].pc = "gather"
    /\ \E e \in graph_edges : e[2] \notin DOMAIN found_links

(***************************************************************************)
(* C19: a limiter slot is held only for the network call. The free slots   *)
(* and the tasks inside the network call always add up to the capacity,    *)
(* so a task that extracts links or awaits its children holds none; when   *)
(* no slot is free some task is inside its network call, and for every     *)
(* capacity of at least 1 the crawl always has a step to take until        *)
(* scan_url has returned.                                                  *)
(***************************************************************************)
C19_SlotOnlyForNetworkCall ==
    /\ [][(sem_value + Cardinality(Holders))'
             = sem_value + Cardinality(Holders)]_vars
    /\ []((phase = "crawl" /\ sem_value = 0) => Holders /= {})
    /\ [](phase = "crawl" => ENABLED <<Next>>_vars)

\* every slot is taken by a child in its network call while its parent
\* awaits it and another task waits for a slot
C19_Witness ==
    /\ sem_value = 0
    /\ \E t \in Holders :
          /\ tasks[t].parent /= 0
          /\ tasks[tasks[t].parent].pc = "gather"
          /\ tasks[t].depth >= 2
    /\ \E t \in TaskIds : tasks[t].pc = "acquire"

====
